---- MODULE Spec2Model ----
(***************************************************************************)
(* A model of the rendering core of pbrt_rust:                             *)
(*   - SamplerRenderer::render and run_task (src/src/sampler_renderer.rs), *)
(*     with the scoped thread pool that runs the tasks;                    *)
(*   - process_specular, specular_reflect and specular_transmit           *)
(*     (src/src/integrator/mod.rs) and the recursion they take part in.    *)
(* The sampler, the camera, the spectrum type, the BSDF and the Whitted    *)
(* integrator are not part of the sources at hand; where the model needs   *)
(* them they follow the written specification and are marked as such.      *)
(***************************************************************************)
EXTENDS Integers, Sequences, FiniteSets, TLC

(***************************************************************************)
(* Bounds of the model.                                                    *)
(***************************************************************************)
\* Largest logical CPU count for which the task count alone is computed.
MaxCpus == 16
\* Logical CPU counts (pool sizes) with which tasks are run.
CpuCounts == {1, 2}
\* Number of tiles of the image: get_sub_sampler(i, T) exists iff i < NumTiles.
NumTiles == 2
\* Number of samples of the first tile (every other tile holds one sample).
TileSamples == 3
\* The sampler's maximum_sample_count(): samples handed out per call.
MaxSampleCount == 2

\* Pixel counts of the film for which the task count is computed.
PixelCounts == {0, 255, 256, 8191, 8192, 8448, 16384, 262144, 262400}
\* Pixel counts of the film with which tasks are run.
RunPixelCounts == {0}
\* Ray weights the camera may return for a sample.
Weights == {-1, 0, 1}

(***************************************************************************)
(* i32 helpers of the task-count closure (sampler_renderer.rs:180-182).    *)
(***************************************************************************)
RECURSIVE BitLength(_)
\* Number of significant bits of x >= 0: 32 - x.leading_zeros().
BitLength(x) == IF x = 0 THEN 0 ELSE 1 + BitLength(x \div 2)

\* x.leading_zeros() of a non-negative i32.
LeadingZeros(x) == 32 - BitLength(x)

RECURSIVE BitAnd(_, _)
\* x.bitand(y) for non-negative x, y.
BitAnd(x, y) ==
    IF x = 0 \/ y = 0 THEN 0
    ELSE (IF x % 2 = 1 /\ y % 2 = 1 THEN 1 ELSE 0) + 2 * BitAnd(x \div 2, y \div 2)

\* ::std::cmp::max
Max(a, b) == IF a >= b THEN a ELSE b

\* The closure applied to its argument x (lines 180-181).
RoundedLog2(x) ==
    31 - LeadingZeros(x) + (IF 0 = BitAnd(x, x - 1) THEN 0 ELSE 1)

\* The argument of the closure (line 182): max(32 * num_cpus, num_pixels / (16 * 16)).
TaskBase(cpus, pixels) == Max(32 * cpus, pixels \div (16 * 16))

\* num_tasks as render computes it (lines 180-182).
NumTasks(cpus, pixels) == RoundedLog2(TaskBase(cpus, pixels))

(***************************************************************************)
(* State.                                                                  *)
(***************************************************************************)
VARIABLES
    num_cpus,     \* num_cpus::get(), the size of the pool
    num_pixels,   \* camera.film().num_pixels()
    num_tasks,    \* the task count render computes (0 before it is computed)
    rpc,          \* position of render: the line it is about to execute
    fatal,        \* why render panicked ("none" while it has not)
    submitted,    \* number of closures render has handed to scope.execute
    alive,        \* worker threads of the pool that have not panicked
    lock,         \* holder of the Mutex around the task data (Free: nobody)
    task,         \* per task: its position in run_task and its local variables
    reported,     \* sample results handed to the accumulation stage, in order
    invalid,      \* Renderer::li has returned a spectrum that is not valid
    max_depth,    \* the maximum recursion depth D of the Whitted integrator
    scene,        \* the scene a camera ray is traced in
    stack,        \* the calls of one radiance evaluation, outermost first
    ret,          \* the Spectrum the last call that returned has returned
    continuations, \* calls of renderer.li_simple made by process_specular
    closures,     \* the closures handed to scope.execute, in order, each with
                  \* the task_idx and num_tasks it has captured
    hooks,        \* per integrator: calls of its preprocess hook, and how many
                  \* of them have returned
    rng_made,     \* per task: the number of RNGs it has created
    world,        \* the camera and the scene render is called with
    intersection, \* one call of Primitive::intersect
    shapes,       \* the shape-id counter and the threads that create Shapes
    interpolation, \* one call of AnimatedTransform::interpolate
    inversion,    \* one call of Matrix4x4::invert
    subdiv,       \* one call of LoopSubdiv::new
    refinement    \* one call of FullyRefinable::fully_refine

renderVars ==
    <<num_cpus, num_pixels, num_tasks, rpc, fatal, submitted, alive, lock,
      task, reported, invalid>>

specVars == <<max_depth, scene, stack, ret, continuations>>

runVars == <<closures, hooks, rng_made, world>>

libVars == <<intersection, shapes, interpolation, inversion, subdiv, refinement>>

\* A part of the library that is not in use.
Idle == [pc |-> "idle"]

\* The Mutex is unlocked.
Free == -1

\* Indices of the tasks render creates: 0..num_tasks-1 (line 189).
Tasks == 0 .. (num_tasks - 1)

\* The arguments task_idx and num_tasks of run_task (line 71), as captured
\* by the closure that runs task t.
TaskIdx(t) == closures[t + 1].task_idx
TaskTotal(t) == closures[t + 1].num_tasks

(***************************************************************************)
(* Collaborators that are not part of the sources at hand.                 *)
(***************************************************************************)
\* Sampler::get_sub_sampler(task_idx, num_tasks): the number of samples of the
\* sub-sampler of task t, or -1 when the task index maps to no tile.
SubSampler(t) ==
    IF t >= NumTiles THEN -1
    ELSE IF t = 0 THEN TileSamples ELSE 1

\* Sampler::get_more_samples(samples, rng): the samples left in `samples` by a
\* sub-sampler that has handed out `handed` of its `total` samples; the
\* buffer is left empty once the sub-sampler is exhausted.
MoreSamples(handed, total) ==
    LET n == IF total - handed < MaxSampleCount THEN total - handed
             ELSE MaxSampleCount
    IN  [k \in 1 .. n |-> handed + k]

\* What Renderer::li may hand back: the radiance and the two optional
\* out-parameters (transmittance, intersection).
LiOutcomes ==
    [l : {"valid", "nan"}, ts : {"none", "some"}, isect : {"none", "some"}]

Outcome(l, ts, isect) == [l |-> l, ts |-> ts, isect |-> isect]

\* The cameras: the ray weights a camera gives to the samples of a tile,
\* by the parity of the sample.
Cameras == {<<1, 1>>, <<0, 1>>, <<1, 0>>, <<-1, 1>>}

\* The scenes and integrators: what the evaluator answers, by the parity
\* of what it is given.
Evaluators ==
    {<<Outcome("valid", "some", "some"), Outcome("valid", "none", "none")>>,
     <<Outcome("valid", "none", "none"), Outcome("nan", "none", "none")>>,
     <<Outcome("nan", "some", "some"), Outcome("valid", "some", "none")>>,
     <<Outcome("valid", "none", "some"), Outcome("valid", "none", "none")>>}

Worlds == [camera : Cameras, evaluator : Evaluators]

\* No camera and no scene: no render is going on.
NoWorld == [camera |-> <<>>, evaluator |-> <<>>]

\* A new RNG with the given seed, and the RNG after one more use: the
\* generator is a function of its seed and of the number of draws.
SeededRng(seed) == [seed |-> seed, draws |-> 0]
Drawn(rng) == [rng EXCEPT !.draws = @ + 1]
NoRng == [seed |-> -1, draws |-> 0]

\* Camera::generate_ray_differential(&sample): the weight of the camera ray.
RayWeight(sample) == world.camera[(sample % 2) + 1]

\* Renderer::li(scene, &ray, &sample, &mut rng, ..): a function of the
\* sample and of the state of the RNG it is given.
Li(sample, rng) == world.evaluator[((sample + rng.seed + rng.draws) % 2) + 1]

\* ray_weight * Spectrum, for a ray weight that is not negative.
Scaled(w, l) == IF l = "nan" THEN "nan" ELSE IF w = 0 THEN "zero" ELSE l

\* Spectrum::is_valid
IsValid(l) == l # "nan"

(***************************************************************************)
(* run_task (sampler_renderer.rs:70-163).                                  *)
(***************************************************************************)
\* The local variables of a task that has been created but not yet run.
NewTask ==
    [pc |-> "unsubmitted", handed |-> 0, total |-> -1, rng |-> NoRng,
     samples |-> <<>>, i |-> 0, ray_weight |-> 0,
     l_s |-> <<>>, t_s |-> <<>>, isects |-> <<>>, li_calls |-> 0]

\* A task that has left run_task: its local variables are dropped.
Left(how) == [NewTask EXCEPT !.pc = how]

\* The lines of run_task at which task_data.lock() is called.
LockLines == {"l74", "l80", "l91", "l110", "l124", "l158"}

\* A task has left run_task, by returning or by panicking.
Finished(t) == task[t].pc \in {"done", "panicked"}

\* Tasks a worker thread is executing.
Running == {t \in Tasks : task[t].pc \notin {"unsubmitted", "queued", "done", "panicked"}}

\* The position after sample i of the batch has been dealt with: the next
\* sample of the batch (line 108) or the next batch (line 103).
AfterSample(r) ==
    IF r.i + 1 < Len(r.samples) THEN [r EXCEPT !.i = r.i + 1, !.pc = "l110"]
    ELSE [r EXCEPT !.i = 0, !.pc = "l103"]

\* A worker thread takes the oldest queued closure off the pool's channel.
PoolExecute(t) ==
    /\ t \in Tasks
    /\ task[t].pc = "queued"
    /\ \A u \in Tasks : u < t => task[u].pc # "queued"
    /\ Cardinality(Running) < alive
    /\ task' = [task EXCEPT ![t].pc = "l74"]
    /\ UNCHANGED <<num_cpus, num_pixels, num_tasks, rpc, fatal, submitted,
                   alive, lock, reported, invalid>>
    /\ UNCHANGED specVars
    /\ UNCHANGED libVars
    /\ UNCHANGED runVars

\* task_data.lock().unwrap(): blocks until the Mutex is free.
Lock(t) ==
    /\ t \in Tasks
    /\ task[t].pc \in LockLines
    /\ lock = Free
    /\ lock' = t
    /\ UNCHANGED <<num_cpus, num_pixels, num_tasks, rpc, fatal, submitted,
                   alive, task, reported, invalid>>
    /\ UNCHANGED specVars
    /\ UNCHANGED libVars
    /\ UNCHANGED runVars

\* A MutexGuard that is never dropped: its holder keeps the Mutex.
GuardKept(t) == t

\* The MutexGuard `data` goes out of scope at the end of its block (lines 78,
\* 84, 95, 114, 128, 161) or at the return of line 77: the Mutex is free.
GuardDropped(t) == Free

\* A test that takes every answer of get_sub_sampler for a sub-sampler.
HasSubSamplerAlways(s) == TRUE

\* Line 76: if let Some(s) = get_sub_sampler(task_idx, num_tasks).
HasSubSampler(s) == s >= 0

\* Lines 73-78: the sub-sampler of the task, or return.
GetSubSampler(t) ==
    /\ t \in Tasks
    /\ task[t].pc = "l74"
    /\ lock = t
    /\ lock' = GuardDropped(t)
    /\ task' = [task EXCEPT ![t] =
                  IF HasSubSampler(SubSampler(TaskIdx(t)))
                  THEN [@ EXCEPT !.total = SubSampler(TaskIdx(t)), !.pc = "l80"]
                  ELSE Left("done")]
    /\ UNCHANGED <<num_cpus, num_pixels, num_tasks, rpc, fatal, submitted,
                   alive, reported, invalid>>
    /\ UNCHANGED specVars
    /\ UNCHANGED libVars
    /\ UNCHANGED runVars

\* A generator seeded from what the other tasks have done so far.
NewRngFromProgress(task_idx) ==
    SeededRng(Cardinality({u \in Tasks : task[u].pc \in {"done", "panicked"}}))

\* A generator that ignores the task index.
NewRngUnseeded(task_idx) == SeededRng(0)

\* PseudoRNG::new(task_idx) (line 87): the generator seeded with task_idx.
NewRng(task_idx) == SeededRng(task_idx)

\* Lines 80-90: the scene reference, the task's RNG, max_samples.
GetScene(t) ==
    /\ t \in Tasks
    /\ task[t].pc = "l80"
    /\ lock = t
    /\ lock' = GuardDropped(t)
    /\ task' = [task EXCEPT ![t] = [@ EXCEPT !.rng = NewRng(TaskIdx(t)), !.pc = "l91"]]
    /\ rng_made' = [rng_made EXCEPT ![t] = @ + 1]
    /\ UNCHANGED <<num_cpus, num_pixels, num_tasks, rpc, fatal, submitted,
                   alive, reported, invalid>>
    /\ UNCHANGED specVars
    /\ UNCHANGED libVars
    /\ UNCHANGED <<closures, hooks, world>>

\* Lines 91-99: max_samples clones of the seed sample (written 0), and the
\* empty result vectors.
CloneSamples(t) ==
    /\ t \in Tasks
    /\ task[t].pc = "l91"
    /\ lock = t
    /\ lock' = GuardDropped(t)
    /\ task' = [task EXCEPT ![t] =
                  [@ EXCEPT !.samples = [k \in 1 .. MaxSampleCount |-> 0],
                            !.l_s = <<>>, !.t_s = <<>>, !.isects = <<>>,
                            !.pc = "l103"]]
    /\ UNCHANGED <<num_cpus, num_pixels, num_tasks, rpc, fatal, submitted,
                   alive, reported, invalid>>
    /\ UNCHANGED specVars
    /\ UNCHANGED libVars
    /\ UNCHANGED runVars

\* The loop test left out: an empty batch is processed like any other.
LoopEndsNever(sample_count) == FALSE

\* The test that ends the loop (line 105).
LoopEnds(sample_count) == sample_count = 0

\* Lines 103-105: the next batch; the loop ends when the batch is empty.
GetMoreSamples(t) ==
    /\ t \in Tasks
    /\ task[t].pc = "l103"
    /\ LET batch == MoreSamples(task[t].handed, task[t].total)
       IN  task' = [task EXCEPT ![t] =
                      [@ EXCEPT !.samples = batch,
                                !.rng = Drawn(@),
                                !.handed = @ + Len(batch),
                                !.i = 0,
                                !.pc = IF LoopEnds(Len(batch)) THEN "l158"
                                       ELSE "l110"]]
    /\ UNCHANGED <<num_cpus, num_pixels, num_tasks, rpc, fatal, submitted,
                   alive, lock, reported, invalid>>
    /\ UNCHANGED specVars
    /\ UNCHANGED libVars
    /\ UNCHANGED runVars

\* The weight test off by one: a ray of weight 0 is traced as well.
TracedFromZero(ray_weight) == ray_weight >= 0

\* The test that guards the radiance evaluation (line 119).
Traced(ray_weight) == ray_weight > 0

\* Lines 145-149: the results pushed for a ray that is not traced.
PushZero(r) ==
    [r EXCEPT !.l_s = Append(@, "zero"), !.t_s = Append(@, "zero"),
              !.isects = Append(@, "empty")]

\* A camera that generating a ray changes: the weights of its samples trade
\* places.
CameraAdvanced(camera) == <<camera[2], camera[1]>>

\* Camera::generate_ray_differential(&sample) (line 113) reads the camera and
\* leaves it as it is.
CameraAfterRay(camera) == camera

\* Lines 110-119 and 145-150: the camera ray of sample i and its weight; a
\* ray that is not traced gets its results at once, a traced ray goes on
\* to line 124.
GenerateRay(t) ==
    /\ t \in Tasks
    /\ task[t].pc = "l110"
    /\ lock = t
    /\ lock' = GuardDropped(t)
    /\ \E ray_weight \in Weights \cap {RayWeight(task[t].samples[task[t].i + 1])} :
          LET r == [task[t] EXCEPT !.ray_weight = ray_weight]
          IN  task' = [task EXCEPT ![t] =
                         IF Traced(ray_weight) THEN [r EXCEPT !.pc = "l124"]
                         ELSE AfterSample(PushZero(r))]
    /\ UNCHANGED <<num_cpus, num_pixels, num_tasks, rpc, fatal, submitted,
                   alive, reported, invalid>>
    /\ UNCHANGED specVars
    /\ UNCHANGED libVars
    /\ world' = [world EXCEPT !.camera = CameraAfterRay(@)]
    /\ UNCHANGED <<closures, hooks, rng_made>>

\* Results pushed without a stand-in for what the evaluation has not
\* returned.
PushResultsUnpadded(r, ls, out) ==
    [r EXCEPT !.l_s = Append(@, ls),
              !.t_s = IF out.ts = "some" THEN Append(@, "ts") ELSE @,
              !.isects = IF out.isect = "some" THEN Append(@, "hit") ELSE @]

\* Lines 131-144: the results pushed for a traced ray.
PushResults(r, ls, out) ==
    [r EXCEPT !.l_s = Append(@, ls),
              !.t_s = Append(@, IF out.ts = "some" THEN "ts" ELSE "zero"),
              !.isects = Append(@, IF out.isect = "some" THEN "hit" ELSE "empty")]

\* The validity test left out: an invalid radiance is recorded like any other.
PanicsNever(ls) == FALSE

\* The test of line 130 that makes the task panic.
Panics(ls) == ~IsValid(ls)

\* Lines 120-144: renderer.li under the Mutex, the validity test, the
\* results of the sample.  A panicking task takes its worker thread down.
EvaluateRadiance(t) ==
    /\ t \in Tasks
    /\ task[t].pc = "l124"
    /\ lock = t
    /\ lock' = GuardDropped(t)
    /\ \E out \in LiOutcomes \cap {Li(task[t].samples[task[t].i + 1], task[t].rng)} :
         LET ls == Scaled(task[t].ray_weight, out.l)
             called == [task[t] EXCEPT !.li_calls = @ + 1, !.rng = Drawn(@)]
         IN  IF Panics(ls)
             THEN /\ task' = [task EXCEPT ![t] = Left("panicked")]
                  /\ alive' = alive - 1
                  /\ invalid' = (invalid \/ ~IsValid(out.l))
             ELSE /\ task' = [task EXCEPT ![t] = AfterSample(PushResults(called, ls, out))]
                  /\ alive' = alive
                  /\ invalid' = (invalid \/ ~IsValid(out.l))
    /\ UNCHANGED <<num_cpus, num_pixels, num_tasks, rpc, fatal, submitted,
                   reported>>
    /\ UNCHANGED specVars
    /\ UNCHANGED libVars
    /\ UNCHANGED runVars

\* Lines 158-163: the debug output; the task returns.
DebugSample(t) ==
    /\ t \in Tasks
    /\ task[t].pc = "l158"
    /\ lock = t
    /\ lock' = GuardDropped(t)
    /\ task' = [task EXCEPT ![t] = Left("done")]
    /\ UNCHANGED <<num_cpus, num_pixels, num_tasks, rpc, fatal, submitted,
                   alive, reported, invalid>>
    /\ UNCHANGED specVars
    /\ UNCHANGED libVars
    /\ UNCHANGED runVars

(***************************************************************************)
(* SamplerRenderer::render (sampler_renderer.rs:166-197).                  *)
(***************************************************************************)
\* Integrator::preprocess (integrator/mod.rs:60-64), which both
\* SurfaceIntegrator::preprocess and VolumeIntegrator::preprocess call:
\* its body is unimplemented!(), which panics.
IntegratorPreprocess == "unimplemented"

\* The preprocess hooks of the two integrators: none called, and each called
\* once and returned.
HooksNotCalled == [h \in {"surface", "volume"} |-> [calls |-> 0, finished |-> 0]]
HooksDone == [h \in {"surface", "volume"} |-> [calls |-> 1, finished |-> 1]]

\* Lines 168-169: the preprocessing of the two integrators.  The first call
\* panics, so render never gets past line 168.
RenderPreprocess ==
    /\ rpc = "l168"
    /\ IF IntegratorPreprocess = "unimplemented"
       THEN /\ rpc' = "aborted" /\ fatal' = "unimplemented"
            /\ hooks' = [hooks EXCEPT !["surface"].calls = @ + 1]
       ELSE /\ rpc' = "l177" /\ fatal' = fatal
            /\ hooks' = [h \in DOMAIN hooks |->
                            [calls |-> hooks[h].calls + 1,
                             finished |-> hooks[h].finished + 1]]
    /\ UNCHANGED <<num_cpus, num_pixels, num_tasks, submitted, alive, lock,
                   task, reported, invalid>>
    /\ UNCHANGED specVars
    /\ UNCHANGED libVars
    /\ UNCHANGED <<closures, rng_made, world>>

\* Lines 177-187: the task count, the shared task data behind its Mutex,
\* and Pool::new(num_cpus).
ComputeNumTasks ==
    /\ rpc = "l177"
    /\ num_tasks' = NumTasks(num_cpus, num_pixels)
    /\ task' = [t \in 0 .. (NumTasks(num_cpus, num_pixels) - 1) |-> NewTask]
    /\ rng_made' = [t \in 0 .. (NumTasks(num_cpus, num_pixels) - 1) |-> 0]
    /\ alive' = num_cpus
    /\ rpc' = "l189"
    /\ UNCHANGED <<num_cpus, num_pixels, fatal, submitted, lock, reported, invalid>>
    /\ UNCHANGED specVars
    /\ UNCHANGED libVars
    /\ UNCHANGED <<closures, hooks, world>>

\* A closure that captures the first task index whatever i is.
ClosureOfFirst(i, n) == [task_idx |-> 0, num_tasks |-> n]

\* Line 191: move || run_task(&data, i, num_tasks).
Closure(i, n) == [task_idx |-> i, num_tasks |-> n]

\* Lines 189-192: scope.execute of one closure per task index, in index
\* order.  The closures wait in the pool's channel until a worker thread
\* takes them.
RenderSubmit ==
    /\ rpc = "l189"
    /\ task' = [t \in Tasks |-> [task[t] EXCEPT !.pc = "queued"]]
    /\ closures' = [k \in 1 .. num_tasks |-> Closure(k - 1, num_tasks)]
    /\ submitted' = submitted + Cardinality(Tasks)
    /\ rpc' = "l193"
    /\ UNCHANGED <<num_cpus, num_pixels, num_tasks, fatal, alive, lock,
                   reported, invalid>>
    /\ UNCHANGED specVars
    /\ UNCHANGED libVars
    /\ UNCHANGED <<hooks, rng_made, world>>

\* A join that does not wait.
JoinedAtOnce == TRUE

\* The pool has been joined: every closure has been run, or no worker thread
\* is left to run one.
Joined == alive = 0 \/ \A t \in Tasks : Finished(t)

\* Line 193: the end of the scope joins the pool: it waits until the workers
\* have run every closure, and panics when a worker thread has panicked.
RenderJoin ==
    /\ rpc = "l193"
    /\ Joined
    /\ IF alive < num_cpus
       THEN rpc' = "aborted" /\ fatal' = "pool"
       ELSE rpc' = "returned" /\ fatal' = fatal
    /\ UNCHANGED <<num_cpus, num_pixels, num_tasks, submitted, alive, lock,
                   task, reported, invalid>>
    /\ UNCHANGED specVars
    /\ UNCHANGED libVars
    /\ UNCHANGED runVars

(***************************************************************************)
(* Spectra and vectors, as far as process_specular uses them.  A Spectrum  *)
(* has two channels with a common denominator; vectors have integer        *)
(* coordinates.                                                            *)
(***************************************************************************)
RECURSIVE Gcd(_, _)
Gcd(a, b) == IF b = 0 THEN a ELSE Gcd(b, a % b)

Abs(x) == IF x < 0 THEN -x ELSE x

\* A Spectrum in lowest terms.
Norm(s) ==
    LET g == Gcd(Gcd(Abs(s.c[1]), Abs(s.c[2])), s.den)
    IN  [c |-> <<s.c[1] \div g, s.c[2] \div g>>, den |-> s.den \div g]

\* The Spectrum with the channels a and b.
Channels(a, b) == [c |-> <<a, b>>, den |-> 1]

\* Spectrum::from(0f32)
Zero == Channels(0, 0)

\* Spectrum::is_black: every channel is zero.
IsBlack(s) == s.c[1] = 0 /\ s.c[2] = 0

\* Spectrum * Spectrum, channel by channel.
Mul(a, b) == Norm([c |-> <<a.c[1] * b.c[1], a.c[2] * b.c[2]>>, den |-> a.den * b.den])

\* Spectrum * f32
Times(a, k) == Norm([c |-> <<a.c[1] * k, a.c[2] * k>>, den |-> a.den])

\* Spectrum / f32, for a divisor k > 0.
Over(a, k) == Norm([c |-> a.c, den |-> a.den * k])

\* A direction taken as it is, not negated.
Unnegated(v) == v

\* -(&v)
Neg(v) == <<-v[1], -v[2], -v[3]>>

\* Vector::abs_dot
AbsDot(a, b) == Abs(a[1] * b[1] + a[2] * b[2] + a[3] * b[3])

(***************************************************************************)
(* One radiance evaluation: the camera ray and the recursion through       *)
(* process_specular (integrator/mod.rs:20-55).                             *)
(***************************************************************************)
\* Largest maximum depth D an integrator is built with.
MaxDepth == 1
\* Continuations after which the model follows an evaluation no further.
MaxContinuations == 3

\* The scenes: two facing perfect mirrors and two facing panes of glass
\* (every ray hits a surface), and the empty scene (every ray escapes).
Scenes == {"mirrors", "glass", "empty"}
\* What a BSDF stub may return from sample_f: direction, probability, value.
Wis == {<<1, 0, 0>>, <<0, 1, -2>>}
Pdfs == {-1, 0, 1, 2}
Fs == {Channels(0, 0), Channels(0, 3)}
\* What the evaluation of a ray may return.
LiValues == {Channels(0, 0), Channels(1, 2)}

\* The lobe masks of specular_reflect and specular_transmit (lines 46, 54).
ReflectionMask == {"BSDF_REFLECTION", "BSDF_SPECULAR"}
TransmissionMask == {"BSDF_TRANSMISSION", "BSDF_SPECULAR"}

NoVector == <<0, 0, 0>>

\* The camera ray: origin, direction, and the depth that is left for the
\* rays that continue it.
CameraRay(depth) == [o |-> 0, d |-> <<0, 0, -1>>, depth |-> depth]

\* bsdf.dg_shading.p and bsdf.dg_shading.nn at the hit of a ray.
HitPoint(ray) == ray.o + 1
ShadingNormal == <<0, 0, 1>>

\* A call of the radiance evaluation for `ray`.
LiFrame(ray) ==
    [fn |-> "li", ray |-> ray, depth |-> ray.depth, stage |-> "intersect",
     p |-> HitPoint(ray), mask |-> {}, wo |-> NoVector, wi |-> NoVector,
     pdf |-> 0, f |-> Zero, win |-> 0]

\* A call of process_specular from the evaluation frame `caller`.
SpecularFrame(caller, sample_type) ==
    [fn |-> "process_specular", ray |-> caller.ray, depth |-> caller.depth,
     stage |-> "sample", p |-> caller.p, mask |-> sample_type,
     wo |-> NoVector, wi |-> NoVector, pdf |-> 0, f |-> Zero, win |-> 0]

Top == stack[Len(stack)]
Pop == SubSeq(stack, 1, Len(stack) - 1)
SetTop(frame) == [stack EXCEPT ![Len(stack)] = frame]

\* Scene::intersect
Hits(ray) == scene \in {"mirrors", "glass"}

\* The BSDF at the hit has a lobe that matches the mask: a perfect mirror
\* reflects only, glass reflects and transmits.
HasLobe(mask) == scene = "glass" \/ mask = ReflectionMask

\* The evaluator resolves the nearest intersection of the ray: a ray that
\* escapes returns the background, a hit goes on to the surface integrator,
\* which continues through specular lobes only while depth is left.
Intersect ==
    /\ stack # <<>>
    /\ Top.fn = "li" /\ Top.stage = "intersect"
    /\ IF Hits(Top.ray)
       THEN /\ stack' = SetTop([Top EXCEPT !.stage = IF Top.depth > 0 THEN "reflect" ELSE "sum"])
            /\ ret' = ret
       ELSE /\ stack' = Pop
            /\ ret' \in LiValues
    /\ UNCHANGED <<max_depth, scene, continuations>>
    /\ UNCHANGED renderVars
    /\ UNCHANGED libVars
    /\ UNCHANGED runVars

\* specular_reflect (lines 41-47), called by the surface integrator.
SpecularReflect ==
    /\ stack # <<>>
    /\ Top.fn = "li" /\ Top.stage = "reflect"
    /\ stack' = Append(SetTop([Top EXCEPT !.stage = "transmit"]),
                       SpecularFrame(Top, ReflectionMask))
    /\ UNCHANGED <<max_depth, scene, ret, continuations>>
    /\ UNCHANGED renderVars
    /\ UNCHANGED libVars
    /\ UNCHANGED runVars

\* specular_transmit (lines 49-55), called by the surface integrator.
SpecularTransmit ==
    /\ stack # <<>>
    /\ Top.fn = "li" /\ Top.stage = "transmit"
    /\ stack' = Append(SetTop([Top EXCEPT !.stage = "sum"]),
                       SpecularFrame(Top, TransmissionMask))
    /\ UNCHANGED <<max_depth, scene, ret, continuations>>
    /\ UNCHANGED renderVars
    /\ UNCHANGED libVars
    /\ UNCHANGED runVars

\* The surface integrator returns the sum of its terms.
LiReturn ==
    /\ stack # <<>>
    /\ Top.fn = "li" /\ Top.stage = "sum"
    /\ stack' = Pop
    /\ ret' \in LiValues
    /\ UNCHANGED <<max_depth, scene, continuations>>
    /\ UNCHANGED renderVars
    /\ UNCHANGED libVars
    /\ UNCHANGED runVars

\* Lines 24-30: wo, the sample of the BSDF, and win = wi.abs_dot(n).  A BSDF
\* without a lobe for the mask samples the zero Spectrum with pdf 0.
SampleF ==
    /\ stack # <<>>
    /\ Top.fn = "process_specular" /\ Top.stage = "sample"
    /\ \E wi \in Wis,
          pdf \in (IF HasLobe(Top.mask) THEN Pdfs ELSE {0}),
          f \in (IF HasLobe(Top.mask) THEN Fs ELSE {Zero}) :
          stack' = SetTop([Top EXCEPT !.wo = Neg(Top.ray.d), !.wi = wi,
                                      !.pdf = pdf, !.f = f,
                                      !.win = AbsDot(wi, ShadingNormal),
                                      !.stage = "sampled"])
    /\ UNCHANGED <<max_depth, scene, ret, continuations>>
    /\ UNCHANGED renderVars
    /\ UNCHANGED libVars
    /\ UNCHANGED runVars

\* A test that lets a probability of 0 pass.
AcceptsZeroPdf(pdf, f, win) == pdf >= 0 /\ ~IsBlack(f) /\ win # 0

\* The test of line 31.
Accepts(pdf, f, win) == pdf > 0 /\ ~IsBlack(f) /\ win # 0

\* Line 33: the ray differential of the continuation: rd = ray.clone().
\* The clone is the incoming ray in every field, the depth left included.
ContinuationRay(ray, p, wi) == ray

\* The estimate without the cosine factor.
WeightedWithoutCosine(f, li, win, pdf) == Over(Mul(f, li), pdf)

\* Line 35: f * li * win / pdf
Weighted(f, li, win, pdf) == Over(Times(Mul(f, li), win), pdf)

\* Lines 31-34 and 36-37: an accepted sample continues with the evaluation
\* of rd, a rejected one returns the zero Spectrum.
Continue ==
    /\ stack # <<>>
    /\ Top.fn = "process_specular" /\ Top.stage = "sampled"
    /\ IF Accepts(Top.pdf, Top.f, Top.win)
       THEN /\ continuations < MaxContinuations
            /\ stack' = Append(SetTop([Top EXCEPT !.stage = "li"]),
                               LiFrame(ContinuationRay(Top.ray, Top.p, Top.wi)))
            /\ continuations' = continuations + 1
            /\ ret' = ret
       ELSE /\ stack' = Pop
            /\ ret' = Zero
            /\ continuations' = continuations
    /\ UNCHANGED <<max_depth, scene>>
    /\ UNCHANGED renderVars
    /\ UNCHANGED libVars
    /\ UNCHANGED runVars

\* Line 35: the evaluation of rd has returned li; process_specular returns
\* the weighted estimate.
SpecularReturn ==
    /\ stack # <<>>
    /\ Top.fn = "process_specular" /\ Top.stage = "li"
    /\ stack' = Pop
    /\ ret' = Weighted(Top.f, ret, Top.win, Top.pdf)
    /\ UNCHANGED <<max_depth, scene, continuations>>
    /\ UNCHANGED renderVars
    /\ UNCHANGED libVars
    /\ UNCHANGED runVars

\* The parts of the library that are not in use, all but those named in
\* `used`.
LibraryIdle(used) ==
    /\ IF "intersection" \in used THEN TRUE ELSE intersection = Idle
    /\ IF "shapes" \in used THEN TRUE ELSE shapes = Idle
    /\ IF "interpolation" \in used THEN TRUE ELSE interpolation = Idle
    /\ IF "inversion" \in used THEN TRUE ELSE inversion = Idle
    /\ IF "subdiv" \in used THEN TRUE ELSE subdiv = Idle
    /\ IF "refinement" \in used THEN TRUE ELSE refinement = Idle

\* The evaluation of a camera ray starts with all of the depth D left.
InitSpecular ==
    /\ max_depth \in 0 .. MaxDepth
    /\ scene \in Scenes
    /\ stack = <<LiFrame(CameraRay(max_depth))>>
    /\ ret = Zero
    /\ continuations = 0
    /\ num_cpus = 0
    /\ num_pixels = 0
    /\ num_tasks = 0
    /\ rpc = "idle"
    /\ fatal = "none"
    /\ submitted = 0
    /\ alive = 0
    /\ lock = Free
    /\ task = <<>>
    /\ reported = <<>>
    /\ invalid = FALSE
    /\ closures = <<>>
    /\ hooks = HooksNotCalled
    /\ rng_made = <<>>
    /\ world = NoWorld
    /\ LibraryIdle({})

NextSpecular ==
    \/ Intersect
    \/ SpecularReflect
    \/ SpecularTransmit
    \/ LiReturn
    \/ SampleF
    \/ Continue
    \/ SpecularReturn

(***************************************************************************)
(* Primitive::intersect (primitive/mod.rs:98-108).                         *)
(***************************************************************************)
\* Geometric primitives and rays a scene is intersected with.
NumPrimitives == 2
NumRays == 2
\* Ray parameters at which a geometric primitive may be hit.
Distances == {1, 2}

\* The Primitives: the one variant of the enum, Geometric(prim) (line 61).
Primitives == [variant : {"Geometric"}, prim : 1 .. NumPrimitives]

\* Intersection::primitive is None.
NoPrimitive == [variant |-> "None", prim |-> 0]

\* Option<Intersection>: None, and Some(t) for an intersection t.
None == [some |-> FALSE, t |-> 0, primitive |-> NoPrimitive]
Some(t, primitive) == [some |-> TRUE, t |-> t, primitive |-> primitive]

\* What GeometricPrimitive::intersect may answer: a miss, or a hit whose
\* back-reference is empty or names some Primitive.
GeometricAnswers ==
    {None} \cup {Some(t, q) : t \in Distances, q \in Primitives \cup {NoPrimitive}}

\* The scenes: what each geometric primitive answers to each ray.
Geometries == [1 .. NumRays -> GeometricAnswers]

\* GeometricPrimitive::intersect(ray), for the primitive inside `self`.
GeometricIntersect(self, ray) == intersection.geometry[ray]

\* An intersection handed on as it is.
BackReferenceKept(t, self) == t

\* Line 106: t.primitive = Some(self).
BackReference(t, self) == [t EXCEPT !.primitive = self]

\* Lines 99-107: the intersection of the wrapped primitive, with its
\* back-reference set to self; a miss is handed on.
Intersected(self, ray) ==
    LET isect == GeometricIntersect(self, ray)
    IN  IF isect.some THEN BackReference(isect, self) ELSE isect

\* A call of Primitive::intersect returns.
PrimitiveIntersect ==
    /\ intersection.pc = "called"
    /\ intersection' = [intersection EXCEPT
                           !.isect = Intersected(intersection.self, intersection.ray),
                           !.pc = "returned"]
    /\ UNCHANGED <<renderVars, specVars, runVars>>
    /\ UNCHANGED <<shapes, interpolation, inversion, subdiv, refinement>>

(***************************************************************************)
(* Shape::new and the shape-id counter (shape/shape.rs:18-31).             *)
(***************************************************************************)
\* The threads that create Shapes, and the Shapes each of them creates at
\* most.
Threads == {1, 2}
MaxShapes == 3

\* ATOMIC_ISIZE_INIT (line 18): NEXT_SHAPE_ID starts at 0.
AtomicIsizeInit == 0

\* An update of the counter that is lost.
FetchAddLost(counter, n) == counter

\* NEXT_SHAPE_ID.fetch_add(1, Relaxed) (line 29): the value the counter
\* holds after the call; the call returns the value it held before.
FetchAdd(counter, n) == counter + n

\* Shape::new (lines 21-31), called by thread th: the new Shape takes the
\* value of the counter for its id, in one atomic read-modify-write.
ShapeNew(th, ro) ==
    /\ shapes.pc = "running"
    /\ Len(shapes.created[th]) < MaxShapes
    /\ shapes' = [shapes EXCEPT
                     !.next_shape_id = FetchAdd(@, 1),
                     !.created[th] = Append(@, [reverse_orientation |-> ro,
                                                shape_id |-> shapes.next_shape_id])]
    /\ UNCHANGED <<renderVars, specVars, runVars>>
    /\ UNCHANGED <<intersection, interpolation, inversion, subdiv, refinement>>

(***************************************************************************)
(* AnimatedTransform::interpolate (transform/animated.rs:102-180).         *)
(* A Transform is a translation along one axis and a uniform scale, with   *)
(* integer values; interpolated values are fractions <<numerator,          *)
(* denominator>>.                                                          *)
(***************************************************************************)
\* Largest start and end time of an animation.
MaxTime == 2

\* The Transforms an animation may start and end with.
Transforms == [t : {0, 1}, s : {1, 2}]

\* The times an animation may be asked for: before, between and after its
\* key times.
QueryTimes == -1 .. (MaxTime + 1)

\* AnimatedTransform::new (lines 103-137): the key transforms and times, the
\* decomposition of the transforms and which of its parts differ.
AnimatedTransformNew(transform1, time1, transform2, time2) ==
    [start_time |-> time1, end_time |-> time2,
     start_transform |-> transform1, end_transform |-> transform2,
     actually_animated |-> transform1 # transform2,
     t1 |-> transform1.t, t2 |-> transform2.t, t_animated |-> transform1.t # transform2.t,
     s1 |-> transform1.s, s2 |-> transform2.s, s_animated |-> transform1.s # transform2.s]

\* A value that is not interpolated, as a fraction.
Whole(x) == <<x, 1>>

\* a.lerp(b, dt) for dt = num / den: (1 - dt) * a + dt * b.
Lerp(a, b, num, den) == <<a * (den - num) + b * num, den>>

\* What interpolate has returned: which return statement, the Transform, and
\* the divisors of the divisions it has carried out.
Interpolated(branch, t, s, divisors) ==
    [branch |-> branch, t |-> t, s |-> s, divisors |-> divisors]

\* self.start_transform.clone() and self.end_transform.clone()
Clone(branch, transform) == Interpolated(branch, Whole(transform.t), Whole(transform.s), {})

\* An end test that lets the end time itself pass.
PastEnd(time, end_time) == time > end_time

\* Line 149: time >= self.end_time
AtEnd(time, end_time) == time >= end_time

\* Lines 143-180.
Interpolate(self, time) ==
    IF ~self.actually_animated \/ time <= self.start_time
    THEN Clone("start", self.start_transform)
    ELSE IF AtEnd(time, self.end_time)
    THEN Clone("end", self.end_transform)
    ELSE LET num == time - self.start_time
             den == self.end_time - self.start_time
             trans == IF self.t_animated THEN Lerp(self.t1, self.t2, num, den)
                      ELSE Whole(self.t1)
             scale == IF self.s_animated THEN Lerp(self.s1, self.s2, num, den)
                      ELSE Whole(self.s1)
         IN  Interpolated("interpolated", trans, scale, {den})

\* A call of interpolate returns.
AnimatedInterpolate ==
    /\ interpolation.pc = "called"
    /\ interpolation' = [interpolation EXCEPT
                            !.result = Interpolate(interpolation.self, interpolation.time),
                            !.pc = "returned"]
    /\ UNCHANGED <<renderVars, specVars, runVars>>
    /\ UNCHANGED <<intersection, shapes, inversion, subdiv, refinement>>

(***************************************************************************)
(* FullyRefinable::fully_refine (primitive/mod.rs:36-57).                  *)
(***************************************************************************)
\* Largest number of nodes of a refinement tree; node 0 is the root, self.
MaxNodes == 4

\* The refinement trees with n nodes: each node but the root has a parent
\* with a smaller number.
Parents(n) == {p \in [1 .. (n - 1) -> 0 .. (n - 1)] : \A x \in 1 .. (n - 1) : p[x] < x}

\* The nodes of `among` whose parent is x, in increasing order.
RECURSIVE ChildrenOf(_, _, _)
ChildrenOf(p, x, among) ==
    IF among = {} THEN <<>>
    ELSE LET least == CHOOSE c \in among : \A d \in among : c <= d
             rest == ChildrenOf(p, x, among \ {least})
         IN  IF p[least] = x THEN <<least>> \o rest ELSE rest

\* Refinable::refine (line 38): what a node refines into.
Refine(x) == refinement.children[x]

\* Refinable::is_refined (line 37)
IsRefined(x) == refinement.refined[x]

\* A work list that starts with self itself.
TodoOfSelf(self) == <<self>>

\* Line 43: let mut todo = self.refine().
FirstTodo(self) == Refine(self)

\* Lines 43-44: the work list and the empty result.
RefineSelf ==
    /\ refinement.pc = "l43"
    /\ refinement' = [refinement EXCEPT !.todo = FirstTodo(refinement.self),
                                        !.done = <<>>,
                                        !.pc = "l46"]
    /\ UNCHANGED <<renderVars, specVars, runVars>>
    /\ UNCHANGED <<intersection, shapes, interpolation, inversion, subdiv>>

\* Lines 46-53: one turn of the loop: the last element of the work list is
\* popped; a refined one goes to the result, another one is refined and
\* what it refines into is appended to the work list.
RefineNext ==
    /\ refinement.pc = "l46"
    /\ refinement.todo # <<>>
    /\ LET todo == refinement.todo
           x == todo[Len(todo)]
           popped == SubSeq(todo, 1, Len(todo) - 1)
       IN  refinement' =
               IF IsRefined(x)
               THEN [refinement EXCEPT !.todo = popped, !.done = Append(@, x)]
               ELSE [refinement EXCEPT !.todo = popped \o Refine(x)]
    /\ UNCHANGED <<renderVars, specVars, runVars>>
    /\ UNCHANGED <<intersection, shapes, interpolation, inversion, subdiv>>

\* Lines 46 and 55: the work list is empty; done is returned.
RefineReturn ==
    /\ refinement.pc = "l46"
    /\ refinement.todo = <<>>
    /\ refinement' = [refinement EXCEPT !.pc = "returned"]
    /\ UNCHANGED <<renderVars, specVars, runVars>>
    /\ UNCHANGED <<intersection, shapes, interpolation, inversion, subdiv>>

(***************************************************************************)
(* LoopSubdiv::new (shape/loopsubdiv.rs:246-362).  Vertices and faces are  *)
(* reference counted: each carries the numbers of Rc and of Weak pointers  *)
(* to it.                                                                  *)
(***************************************************************************)
\* Largest number of points and of faces of a control mesh.
MaxPoints == 4
MaxFaces == 4

\* The faces of the tetrahedron TET_TRIS (lines 445-446).
TetTris == {<<0, 3, 2>>, <<0, 1, 2>>, <<0, 3, 1>>, <<1, 2, 3>>}

\* The triangles whose vertex indices reference n points.
Triangles(n) == {tri \in TetTris : \A j \in 1 .. 3 : tri[j] < n}

\* Sequences of at most m elements of the set S.
UpTo(S, m) == UNION {[1 .. k -> S] : k \in 0 .. m}

\* The index list of a sequence of triangles: three indices per face.
Indices(tris) == [k \in 1 .. (3 * Len(tris)) |-> tris[((k - 1) \div 3) + 1][((k - 1) % 3) + 1]]

\* fn next (line 18)
NextVert(i) == (i + 1) % 3

\* Rc::new(SDVertex::new(id, p)) (lines 62-71, 256): no start face (0), one
\* Rc and no Weak pointer.
SDVertexNew(id) ==
    [id |-> id, start_face |-> 0, regular |-> FALSE, boundary |-> FALSE,
     strong |-> 1, weak |-> 0]

\* Rc::new(SDFace::new(v1, v2, v3)) (lines 164-170, 273): no neighbours.
SDFaceNew(v0, v1, v2) ==
    [v |-> <<v0, v1, v2>>, f |-> <<0, 0, 0>>, strong |-> 1, weak |-> 0]

\* Rc::get_mut(rc) is Some: rc is the only pointer to its value, no other
\* Rc and no Weak pointer exists.
RcGetMut(rc) == rc.strong = 1 /\ rc.weak = 0

\* How many of the three indices of a triangle are v.
Uses(tri, v) == Cardinality({j \in 1 .. 3 : tri[j] = v})

\* Lines 251-261 and 264-265: one vertex per point, and the number of faces.
AllocateVertices ==
    /\ subdiv.pc = "l251"
    /\ subdiv' = [subdiv EXCEPT
                     !.verts = [k \in 1 .. subdiv.points |-> SDVertexNew(k - 1)],
                     !.vert_id = subdiv.points,
                     !.num_faces = Len(subdiv.vertex_indices) \div 3,
                     !.pc = "l269"]
    /\ UNCHANGED <<renderVars, specVars, runVars>>
    /\ UNCHANGED <<intersection, shapes, interpolation, inversion, refinement>>

\* Lines 269-283, once per face: the face gets a Weak pointer to each of its
\* vertices (lines 274-276); then each vertex is borrowed mutably with
\* Rc::get_mut(..).unwrap() to set its start face (lines 278-280), which
\* panics for a vertex that is not the only pointer to its value.
AllocateFace ==
    /\ subdiv.pc = "l269"
    /\ Len(subdiv.faces) < subdiv.num_faces
    /\ LET k == Len(subdiv.faces)
           tri == <<subdiv.vertex_indices[3 * k + 1], subdiv.vertex_indices[3 * k + 2],
                    subdiv.vertex_indices[3 * k + 3]>>
           downgraded == [v \in DOMAIN subdiv.verts |->
                             [subdiv.verts[v] EXCEPT !.weak = @ + Uses(tri, v - 1)]]
           shared == {j \in 1 .. 3 : ~RcGetMut(downgraded[tri[j] + 1])}
       IN  IF shared # {}
           THEN subdiv' = [subdiv EXCEPT
                              !.verts = downgraded,
                              !.pc = "panicked",
                              !.panic_line = 277 + (CHOOSE j \in shared : \A i \in shared : j <= i)]
           ELSE subdiv' = [subdiv EXCEPT
                              !.verts = [v \in DOMAIN downgraded |->
                                            IF Uses(tri, v - 1) > 0
                                            THEN [downgraded[v] EXCEPT !.start_face = k + 1]
                                            ELSE downgraded[v]],
                              !.faces = Append(@, [SDFaceNew(tri[1], tri[2], tri[3])
                                                      EXCEPT !.weak = Cardinality({tri[j] : j \in 1 .. 3})])]
    /\ UNCHANGED <<renderVars, specVars, runVars>>
    /\ UNCHANGED <<intersection, shapes, interpolation, inversion, refinement>>

\* The key of edge edge_num of face k (lines 294-298): the ids of its two
\* vertices, the smaller one first.
EdgeKey(k, edge_num) ==
    LET id1 == subdiv.faces[k].v[edge_num + 1]
        id2 == subdiv.faces[k].v[NextVert(edge_num) + 1]
    IN  IF id1 < id2 THEN <<id1, id2>> ELSE <<id2, id1>>

\* Lines 287-319: the neighbour pointers.  An edge that is seen for the
\* first time is put into the map; for an edge that is in the map already
\* the face that has put it there is borrowed mutably through a second Rc
\* (line 306), which panics.
SetNeighbors ==
    /\ subdiv.pc = "l269"
    /\ Len(subdiv.faces) = subdiv.num_faces
    /\ LET slots == (1 .. Len(subdiv.faces)) \X (0 .. 2)
           seen_twice == \E a, b \in slots : a # b /\ EdgeKey(a[1], a[2]) = EdgeKey(b[1], b[2])
       IN  IF seen_twice
           THEN subdiv' = [subdiv EXCEPT !.pc = "panicked", !.panic_line = 306]
           ELSE subdiv' = [subdiv EXCEPT !.pc = "l322"]
    /\ UNCHANGED <<renderVars, specVars, runVars>>
    /\ UNCHANGED <<intersection, shapes, interpolation, inversion, refinement>>

\* Lines 322-352: a vertex without a start face is skipped; any other vertex
\* is borrowed mutably with Rc::get_mut(v).unwrap() (line 349), which panics
\* for a vertex that is not the only pointer to its value.  A vertex that is
\* borrowed lies on the boundary, as its start face has no neighbour, and
\* has valence 2.
FinishVertices ==
    /\ subdiv.pc = "l322"
    /\ IF \E v \in DOMAIN subdiv.verts :
             subdiv.verts[v].start_face # 0 /\ ~RcGetMut(subdiv.verts[v])
       THEN subdiv' = [subdiv EXCEPT !.pc = "panicked", !.panic_line = 349]
       ELSE subdiv' = [subdiv EXCEPT
                          !.verts = [v \in DOMAIN subdiv.verts |->
                                        IF subdiv.verts[v].start_face = 0
                                        THEN subdiv.verts[v]
                                        ELSE [subdiv.verts[v] EXCEPT !.boundary = TRUE,
                                                                     !.regular = FALSE]],
                          !.pc = "l354"]
    /\ UNCHANGED <<renderVars, specVars, runVars>>
    /\ UNCHANGED <<intersection, shapes, interpolation, inversion, refinement>>

\* Lines 354-360: the LoopSubdiv that new returns.
SubdivReturn ==
    /\ subdiv.pc = "l354"
    /\ subdiv' = [subdiv EXCEPT
                     !.result = [n_levels |-> subdiv.nl,
                                 vertices |-> Len(subdiv.verts),
                                 faces |-> Len(subdiv.faces),
                                 max_vert_id |-> subdiv.vert_id],
                     !.pc = "returned"]
    /\ UNCHANGED <<renderVars, specVars, runVars>>
    /\ UNCHANGED <<intersection, shapes, interpolation, inversion, refinement>>

(***************************************************************************)
(* f32 arithmetic: IEEE 754 binary32, rounded to nearest, ties to even.    *)
(* A finite value is s * m * 2^e with s in {1, -1} and either m = 0 or     *)
(* 2^23 <= m < 2^24.  The exponent is not limited: no value of the model   *)
(* comes near the largest or the smallest f32.  Zero has no sign.          *)
(***************************************************************************)
F32(k, s, m, e) == [k |-> k, s |-> s, m |-> m, e |-> e]

F32Zero == F32("finite", 1, 0, 0)

\* The f32 nearest to s * (n + r) * 2^e, for an integer 0 <= n < 2^31 and a
\* fraction 0 <= r < 1 that is not 0 exactly when `sticky` holds.
F32Round(s, n, e, sticky) ==
    IF n = 0 THEN F32Zero
    ELSE LET len == BitLength(n)
         IN  IF len <= 24
             THEN F32("finite", s, n * 2^(24 - len), e - (24 - len))
             ELSE LET sh == len - 24
                      q == n \div 2^sh
                      rem == n % 2^sh
                      half == 2^(sh - 1)
                      up == rem > half \/ (rem = half /\ (sticky \/ q % 2 = 1))
                  IN  IF up /\ q + 1 = 2^24
                      THEN F32("finite", s, 2^23, e + sh + 1)
                      ELSE F32("finite", s, IF up THEN q + 1 ELSE q, e + sh)

\* An integer as f32.
F32From(x) == F32Round(IF x < 0 THEN -1 ELSE 1, Abs(x), 0, FALSE)

\* a * b.  The product of the two mantissas has up to 48 bits; it is
\* computed in halves of 12 bits as hi * 2^24 + lo.
F32Mul(a, b) ==
    IF a.m = 0 \/ b.m = 0 THEN F32Zero
    ELSE LET a1 == a.m \div 4096
             a0 == a.m % 4096
             b1 == b.m \div 4096
             b0 == b.m % 4096
             mid == a1 * b0 + a0 * b1
             low == (mid % 4096) * 4096 + a0 * b0
             hi == a1 * b1 + mid \div 4096 + low \div 2^24
             lo == low % 2^24
         IN  F32Round(a.s * b.s, hi * 64 + lo \div 2^18, a.e + b.e + 18,
                      lo % 2^18 # 0)

\* `digits` more digits, in base 64, of the quotient q and remainder r of a
\* division by d.
RECURSIVE LongDivision(_, _, _, _)
LongDivision(q, r, d, digits) ==
    IF digits = 0 THEN <<q, r>>
    ELSE LongDivision(q * 64 + (r * 64) \div d, (r * 64) % d, d, digits - 1)

\* a / b for finite a and b: x / 0 is infinite, 0 / 0 is NaN.
F32Div(a, b) ==
    IF b.m = 0 THEN (IF a.m = 0 THEN F32("nan", 1, 0, 0) ELSE F32("inf", 1, 0, 0))
    ELSE IF a.m = 0 THEN F32Zero
    ELSE LET qr == LongDivision(a.m \div b.m, a.m % b.m, b.m, 5)
         IN  F32Round(a.s * b.s, qr[1], a.e - b.e - 30, qr[2] # 0)

\* a + b, with three more bits than the mantissa has; the smaller operand is
\* shifted right, and a bit that is shifted out and is not 0 is kept in the
\* last bit.
F32Add(a, b) ==
    IF a.m = 0 THEN b
    ELSE IF b.m = 0 THEN a
    ELSE LET x == IF a.e >= b.e THEN a ELSE b
             y == IF a.e >= b.e THEN b ELSE a
             n == y.m * 8
             d == x.e - y.e
             q == n \div 2^d
             shifted == IF d >= 31 THEN 1
                        ELSE IF n % 2^d # 0 /\ q % 2 = 0 THEN q + 1 ELSE q
             sum == x.s * x.m * 8 + y.s * shifted
         IN  F32Round(IF sum < 0 THEN -1 ELSE 1, Abs(sum), x.e - 3, FALSE)

\* a - b
F32Sub(a, b) == F32Add(a, [b EXCEPT !.s = -b.s])

\* a.abs()
F32Neg(a) == [a EXCEPT !.s = -a.s]

F32Abs(a) == [a EXCEPT !.s = 1]

\* a > b for a and b that are not negative; false when one of them is NaN.
F32Greater(a, b) ==
    CASE a.k = "nan" \/ b.k = "nan" -> FALSE
      [] a.k # "nan" /\ b.k # "nan" /\ a.k = "inf" -> b.k # "inf"
      [] a.k = "finite" /\ b.k = "inf" -> FALSE
      [] a.k = "finite" /\ b.k = "finite" ->
            a.m # 0 /\ (b.m = 0 \/ a.e > b.e \/ (a.e = b.e /\ a.m > b.m))

\* a.max(b) for a and b that are finite and not negative.
F32Max(a, b) == IF F32Greater(b, a) THEN b ELSE a

(***************************************************************************)
(* Matrix4x4::lu_decompose, invert and inverse                             *)
(* (transform/matrix4x4.rs:65-164).  Rows and columns are counted from 0,  *)
(* as in the source.                                                       *)
(***************************************************************************)
\* Largest factor a matrix of the model is scaled by.
MaxScale == 2

\* The matrices that are inverted, before scaling: the matrix of the test
\* it_cant_invert_singular_matrices (lines 512-515), another matrix of rank
\* 3, a matrix with a column that depends on the others, a matrix with a
\* row of zeros, the identity and a band matrix.
Matrices ==
    {<<<<32, 8, 11, 17>>, <<8, 20, 17, 23>>, <<11, 17, 14, 26>>, <<17, 23, 26, 2>>>>,
     <<<<3, 0, -8, 1>>, <<-4, 1, 9, 0>>, <<23, -21, -21, 3>>, <<-7, 9, 1, -2>>>>,
     <<<<1, 2, 3, 0>>, <<4, 5, 6, 0>>, <<7, 8, 9, 0>>, <<0, 0, 0, 1>>>>,
     <<<<1, 2, 3, 4>>, <<0, 0, 0, 0>>, <<0, 1, 0, 0>>, <<0, 0, 1, 1>>>>,
     <<<<1, 0, 0, 0>>, <<0, 1, 0, 0>>, <<0, 0, 1, 0>>, <<0, 0, 0, 1>>>>,
     <<<<2, 1, 0, 0>>, <<1, 3, 1, 0>>, <<0, 1, 4, 1>>, <<0, 0, 1, 5>>>>}

\* m[i][j]
At(m, i, j) == m[i + 1][j + 1]

\* The determinant of a matrix of integers, by its first row.
Det4(m) ==
    LET Det2(c) == At(m, 2, c[1]) * At(m, 3, c[2]) - At(m, 2, c[2]) * At(m, 3, c[1])
        Det3(c) == At(m, 1, c[1]) * Det2(<<c[2], c[3]>>)
                   - At(m, 1, c[2]) * Det2(<<c[1], c[3]>>)
                   + At(m, 1, c[3]) * Det2(<<c[1], c[2]>>)
    IN  At(m, 0, 0) * Det3(<<1, 2, 3>>) - At(m, 0, 1) * Det3(<<0, 2, 3>>)
        + At(m, 0, 2) * Det3(<<0, 1, 3>>) - At(m, 0, 3) * Det3(<<0, 1, 2>>)

\* Matrix4x4::new_with: the matrix of integers m times `scale`, transposed
\* or not, as a matrix of f32.
NewWith(m, scale, transposed) ==
    [i \in 1 .. 4 |-> [j \in 1 .. 4 |->
        F32From(scale * (IF transposed THEN m[j][i] ELSE m[i][j]))]]

\* Matrix4x4::transpose (lines 50-56)
Transpose(m) == [i \in 1 .. 4 |-> [j \in 1 .. 4 |-> m[j][i]]]

\* Lines 68-70: the largest magnitude of a row.
RowScale(row) ==
    F32Max(F32Abs(row[4]), F32Max(F32Abs(row[3]),
        F32Max(F32Abs(row[2]), F32Max(F32Abs(row[1]), F32Zero))))

\* Lines 75-78: the fold over the rows i .. 3 that looks for the largest
\* scaled entry of column k; acc is the pair (c, p) the fold carries.
RECURSIVE ScaledPivot(_, _, _, _, _)
ScaledPivot(result, s, k, i, acc) ==
    IF i > 3 THEN acc
    ELSE LET cc == F32Abs(F32Div(At(result, i, k), s[i + 1]))
         IN  ScaledPivot(result, s, k, i + 1,
                         IF F32Greater(cc, acc[1]) THEN <<cc, i>> ELSE acc)

\* Lines 88-96: the rows k and p_k trade their entries of the columns k .. 3.
SwapRows(result, k, p_k) ==
    [i \in 1 .. 4 |-> [j \in 1 .. 4 |->
        IF p_k # k /\ j - 1 >= k /\ i - 1 = k THEN At(result, p_k, j - 1)
        ELSE IF p_k # k /\ j - 1 >= k /\ i - 1 = p_k THEN At(result, k, j - 1)
        ELSE result[i][j]]]

\* Lines 98-106: the multipliers of the rows below row k take the place of
\* the entries of column k, and the row k times its multiplier is taken
\* off each row below.
EliminateColumn(result, k) ==
    LET m == [i \in 1 .. 4 |->
                 IF i - 1 > k THEN F32Div(At(result, i - 1, k), At(result, k, k))
                 ELSE F32Zero]
    IN  [i \in 1 .. 4 |-> [j \in 1 .. 4 |->
            IF i - 1 > k /\ j - 1 = k THEN m[i]
            ELSE IF i - 1 > k /\ j - 1 > k
            THEN F32Sub(result[i][j], F32Mul(m[i], At(result, k, j - 1)))
            ELSE result[i][j]]]

\* 1.0e-6 as f32 (line 112): 8796093 * 2^-43.
LastRowTolerance == F32("finite", 1, 8796093, -43)

\* Line 112: result[3][3].abs() < 1.0e-6
LastRowIsZero(u33) == F32Greater(LastRowTolerance, F32Abs(u33))

\* Lines 67-73: det, the scales of the rows, the copy that is decomposed.
LuStart ==
    /\ inversion.pc = "l66"
    /\ inversion' = [inversion EXCEPT
                        !.det = F32From(1),
                        !.s = [i \in 1 .. 4 |-> RowScale(inversion.self[i])],
                        !.result = inversion.self,
                        !.pivot = <<0, 1, 2, 3>>,
                        !.k = 0,
                        !.pc = "l74"]
    /\ UNCHANGED <<renderVars, specVars, runVars>>
    /\ UNCHANGED <<intersection, shapes, interpolation, subdiv, refinement>>

\* Lines 74-109, one turn of the loop: the pivot of column k; None when the
\* largest scaled entry is 0; the exchange of rows and the elimination.
LuEliminate ==
    /\ inversion.pc = "l74"
    /\ inversion.k < 3
    /\ LET k == inversion.k
           cp == ScaledPivot(inversion.result, inversion.s, k, k, <<F32Zero, k>>)
           c_k == cp[1]
           p_k == cp[2]
           swapped == SwapRows(inversion.result, k, p_k)
       IN  IF c_k = F32Zero
           THEN inversion' = [inversion EXCEPT !.pivot[k + 1] = p_k,
                                               !.lu = "None",
                                               !.pc = "l156"]
           ELSE inversion' = [inversion EXCEPT
                                 !.pivot[k + 1] = p_k,
                                 !.det = F32Mul(IF p_k # k THEN F32Neg(inversion.det)
                                                ELSE inversion.det,
                                                At(swapped, k, k)),
                                 !.result = EliminateColumn(swapped, k),
                                 !.k = k + 1]
    /\ UNCHANGED <<renderVars, specVars, runVars>>
    /\ UNCHANGED <<intersection, shapes, interpolation, subdiv, refinement>>

\* Lines 111-116: the test of the last diagonal entry of U.
LuLastRow ==
    /\ inversion.pc = "l74"
    /\ inversion.k = 3
    /\ inversion' = [inversion EXCEPT
                        !.lu = IF LastRowIsZero(At(inversion.result, 3, 3))
                               THEN "None" ELSE "Some",
                        !.pc = "l156"]
    /\ UNCHANGED <<renderVars, specVars, runVars>>
    /\ UNCHANGED <<intersection, shapes, interpolation, subdiv, refinement>>

\* Lines 122-130 of solve_ax_b: the forward substitution, from step k on.
RECURSIVE Forward(_, _, _, _)
Forward(lu, pivot, b, k) ==
    IF k > 2 THEN b
    ELSE LET p == pivot[k + 1]
             swapped == [n \in 1 .. 4 |-> IF n - 1 = k THEN b[p + 1]
                                          ELSE IF n - 1 = p THEN b[k + 1] ELSE b[n]]
         IN  Forward(lu, pivot,
                     [n \in 1 .. 4 |->
                         IF n - 1 > k
                         THEN F32Sub(swapped[n], F32Mul(At(lu, n - 1, k), swapped[k + 1]))
                         ELSE swapped[n]],
                     k + 1)

\* Lines 134-136: the sum of lu[i][j] * result[j] over j .. 3, added to acc.
RECURSIVE RowSum(_, _, _, _, _)
RowSum(lu, result, i, j, acc) ==
    IF j > 3 THEN acc
    ELSE RowSum(lu, result, i, j + 1, F32Add(acc, F32Mul(At(lu, i, j), result[j + 1])))

\* Lines 133-139: the back substitution, from row i up to row 0.
RECURSIVE Backward(_, _, _)
Backward(lu, result, i) ==
    IF i < 0 THEN result
    ELSE Backward(lu,
                  [result EXCEPT ![i + 1] =
                      F32Div(F32Sub(@, RowSum(lu, result, i, i + 1, F32Zero)), At(lu, i, i))],
                  i - 1)

\* solve_ax_b (lines 119-142)
SolveAxB(lu, pivot, b) ==
    LET forward == Forward(lu, pivot, b, 0)
    IN  Backward(lu, [forward EXCEPT ![4] = F32Div(@, At(lu, 3, 3))], 2)

\* invert_with (lines 147-153)
InvertWith(lu, pivot) ==
    Transpose([n \in 1 .. 4 |->
        SolveAxB(lu, pivot, [j \in 1 .. 4 |-> IF j = n THEN F32From(1) ELSE F32Zero])])

\* invert (lines 155-160), which inverse (lines 162-164) calls on a clone:
\* None panics, Some is inverted.
Invert ==
    /\ inversion.pc = "l156"
    /\ IF inversion.lu = "None"
       THEN inversion' = [inversion EXCEPT !.pc = "panicked",
                                           !.message = "Singular matrix!"]
       ELSE inversion' = [inversion EXCEPT
                             !.pc = "returned",
                             !.inverse = InvertWith(inversion.result, inversion.pivot)]
    /\ UNCHANGED <<renderVars, specVars, runVars>>
    /\ UNCHANGED <<intersection, shapes, interpolation, subdiv, refinement>>

(***************************************************************************)
(* Specifications.                                                         *)
(***************************************************************************)
\* The state in which render is called: `entry` is the line at which the
\* model takes render up.
InitRender(cpus, pixelCounts, entry) ==
    /\ num_cpus \in cpus
    /\ num_pixels \in pixelCounts
    /\ num_tasks = 0
    /\ rpc \in entry
    /\ fatal = "none"
    /\ submitted = 0
    /\ alive = 0
    /\ lock = Free
    /\ task = <<>>
    /\ reported = <<>>
    /\ invalid = FALSE
    /\ closures = <<>>
    /\ hooks = (IF rpc = "l168" THEN HooksNotCalled ELSE HooksDone)
    /\ rng_made = <<>>
    /\ world \in Worlds
    /\ max_depth = 0
    /\ scene = "none"
    /\ stack = <<>>
    /\ ret = Zero
    /\ continuations = 0
    /\ LibraryIdle({})

\* render is called (line 168), or its launch block is entered with the
\* preprocessing behind it (line 177).
Init == InitRender(CpuCounts, RunPixelCounts, {"l168", "l177"})

Next ==
    \/ RenderPreprocess
    \/ ComputeNumTasks
    \/ RenderSubmit
    \/ RenderJoin
    \/ \E t \in Tasks : PoolExecute(t)
    \/ \E t \in Tasks : Lock(t)
    \/ \E t \in Tasks : GetSubSampler(t)
    \/ \E t \in Tasks : GetScene(t)
    \/ \E t \in Tasks : CloneSamples(t)
    \/ \E t \in Tasks : GetMoreSamples(t)
    \/ \E t \in Tasks : GenerateRay(t)
    \/ \E t \in Tasks : EvaluateRadiance(t)
    \/ \E t \in Tasks : DebugSample(t)

vars == <<renderVars, specVars, runVars, libVars>>

Spec == Init /\ [][Next]_vars

\* The task count alone, for a wide range of CPU and pixel counts.
InitNumTasks == InitRender(1 .. MaxCpus, PixelCounts, {"l177"})

SpecNumTasks == InitNumTasks /\ [][ComputeNumTasks]_vars

\* One radiance evaluation.
SpecSpecular == InitSpecular /\ [][NextSpecular]_vars

\* The worker threads of the pool are scheduled by the operating system: a
\* thread that can take a step is not held up for ever.
FairSpec == Spec /\ WF_vars(Next)

\* No render and no radiance evaluation is going on.
NoRender ==
    /\ num_cpus = 0
    /\ num_pixels = 0
    /\ num_tasks = 0
    /\ rpc = "idle"
    /\ fatal = "none"
    /\ submitted = 0
    /\ alive = 0
    /\ lock = Free
    /\ task = <<>>
    /\ reported = <<>>
    /\ invalid = FALSE
    /\ closures = <<>>
    /\ hooks = HooksNotCalled
    /\ rng_made = <<>>
    /\ world = NoWorld
    /\ max_depth = 0
    /\ scene = "none"
    /\ stack = <<>>
    /\ ret = Zero
    /\ continuations = 0

\* Primitive::intersect is called on a Primitive with a ray; the wrapped
\* geometric primitive answers each ray in some way.
InitIntersect ==
    /\ NoRender
    /\ LibraryIdle({"intersection"})
    /\ intersection \in [pc : {"called"}, self : Primitives, ray : 1 .. NumRays,
                         geometry : Geometries, isect : {None}]

SpecIntersect == InitIntersect /\ [][PrimitiveIntersect]_vars

\* The process starts: no Shape has been created.
InitShapes ==
    /\ NoRender
    /\ LibraryIdle({"shapes"})
    /\ shapes = [pc |-> "running", next_shape_id |-> AtomicIsizeInit,
                 created |-> [th \in Threads |-> <<>>]]

NextShapes == \E th \in Threads, ro \in BOOLEAN : ShapeNew(th, ro)

SpecShapes == InitShapes /\ [][NextShapes]_vars

\* interpolate is called on an AnimatedTransform built by new, with any key
\* transforms and key times (equal ones and end before start included).
InitInterpolate ==
    /\ NoRender
    /\ LibraryIdle({"interpolation"})
    /\ \E transform1, transform2 \in Transforms, time1, time2 \in 0 .. MaxTime, time \in QueryTimes :
          interpolation =
              [pc |-> "called",
               self |-> AnimatedTransformNew(transform1, time1, transform2, time2),
               time |-> time,
               result |-> Clone("none", transform1)]

SpecInterpolate == InitInterpolate /\ [][AnimatedInterpolate]_vars

\* fully_refine is called on the root of a finite refinement tree, in which
\* any node may be refined already.
InitRefine ==
    /\ NoRender
    /\ LibraryIdle({"refinement"})
    /\ \E n \in 1 .. MaxNodes :
          \E p \in Parents(n), refined \in [0 .. (n - 1) -> BOOLEAN] :
              refinement =
                  [pc |-> "l43", self |-> 0,
                   children |-> [x \in 0 .. (n - 1) |-> ChildrenOf(p, x, 1 .. (n - 1))],
                   refined |-> refined,
                   todo |-> <<>>, done |-> <<>>]

NextRefine ==
    \/ RefineSelf
    \/ RefineNext
    \/ RefineReturn

SpecRefine == InitRefine /\ [][NextRefine]_vars

\* LoopSubdiv::new is called with n points, the indices of m triangles that
\* reference them, and a number of levels.
InitSubdiv ==
    /\ NoRender
    /\ LibraryIdle({"subdiv"})
    /\ \E n \in 0 .. MaxPoints, nl \in {0, 1} :
          \E tris \in UpTo(Triangles(n), MaxFaces) :
              subdiv = [pc |-> "l251", points |-> n, vertex_indices |-> Indices(tris),
                        nl |-> nl, verts |-> <<>>, vert_id |-> 0, num_faces |-> 0,
                        faces |-> <<>>, panic_line |-> 0,
                        result |-> [n_levels |-> 0, vertices |-> 0, faces |-> 0,
                                    max_vert_id |-> 0]]

NextSubdiv ==
    \/ AllocateVertices
    \/ AllocateFace
    \/ SetNeighbors
    \/ FinishVertices
    \/ SubdivReturn

SpecSubdiv == InitSubdiv /\ [][NextSubdiv]_vars

\* invert or inverse is called on a matrix.
InitInvert ==
    /\ NoRender
    /\ LibraryIdle({"inversion"})
    /\ \E m \in Matrices, scale \in 1 .. MaxScale, transposed \in BOOLEAN,
          fn \in {"invert", "inverse"} :
          inversion =
              [pc |-> "l66", fn |-> fn, singular |-> (Det4(m) = 0),
               self |-> NewWith(m, scale, transposed),
               det |-> F32Zero, s |-> <<>>, result |-> <<>>, pivot |-> <<>>, k |-> 0,
               lu |-> "none", message |-> "", inverse |-> <<>>]

NextInvert ==
    \/ LuStart
    \/ LuEliminate
    \/ LuLastRow
    \/ Invert

SpecInvert == InitInvert /\ [][NextInvert]_vars

(***************************************************************************)
(* The task count (claims C4, C5).                                         *)
(***************************************************************************)
RECURSIVE Pow2AtLeast(_, _)
\* The smallest power of two >= x that is >= p, for a power of two p.
Pow2AtLeast(p, x) == IF p >= x THEN p ELSE Pow2AtLeast(2 * p, x)

\* render has computed num_tasks.
TasksComputed == rpc \notin {"l168", "l177"} /\ fatal # "unimplemented"

\* C4: the task count render computes is the smallest power of two that is
\* >= max(32 * C, P / 256); P = 262144 and C = 4 give 1024.
C4_TaskCountIsNextPowerOfTwo ==
    TasksComputed =>
        num_tasks = Pow2AtLeast(1, TaskBase(num_cpus, num_pixels))

\* C5: the number of tasks is never smaller than the number of worker
\* threads of the pool.
C5_TasksAtLeastThreads ==
    TasksComputed => num_tasks >= num_cpus

(***************************************************************************)
(* Invalid radiance and the end of render (claims C6, C7).                 *)
(***************************************************************************)
\* C6: once the radiance evaluator has returned an invalid spectrum for a
\* traced sample, render does not return normally: the task that got the
\* spectrum has panicked, and render never reaches its normal return.
C6_InvalidRadianceAbortsRender ==
    invalid => /\ rpc # "returned"
               /\ \E t \in Tasks : task[t].pc = "panicked"

\* An invalid spectrum was returned, the pool's join saw the panicked worker
\* and render panicked in turn.
C6_Witness ==
    /\ invalid
    /\ rpc = "aborted"
    /\ fatal = "pool"
    /\ \E t \in Tasks : task[t].pc = "panicked"

\* C7: invalid radiance is the only condition that aborts a render: a render
\* in which every evaluated radiance is valid does not abort.
C7_OnlyInvalidRadianceAborts ==
    rpc = "aborted" => invalid

(***************************************************************************)
(* The sampling loop of a task (claims C8, C9, C10).                       *)
(***************************************************************************)
\* Task t takes the step of run_task that generates a camera ray.
GeneratesRay(t) ==
    task[t].pc = "l110" /\ lock = t /\ task'[t] # task[t]

\* C8: for a sample whose camera ray has weight 0 the task does not invoke
\* the radiance evaluator, and it records zero radiance, zero transmittance
\* and an empty intersection for it; the evaluator is only ever invoked for
\* a ray of positive weight.
C8_ZeroWeightNotTraced ==
    [][\A t \in Tasks :
        /\ (GeneratesRay(t) /\ task'[t].ray_weight = 0) =>
              /\ task'[t].pc # "l124"
              /\ task'[t].li_calls = task[t].li_calls
              /\ task'[t].l_s = Append(task[t].l_s, "zero")
              /\ task'[t].t_s = Append(task[t].t_s, "zero")
              /\ task'[t].isects = Append(task[t].isects, "empty")
        /\ task'[t].li_calls > task[t].li_calls => task[t].ray_weight > 0
      ]_vars

\* A task has recorded the zero results of a ray of weight 0 without having
\* invoked the evaluator.
C8_Witness ==
    \E t \in Tasks :
        /\ task[t].ray_weight = 0
        /\ task[t].li_calls = 0
        /\ task[t].l_s = <<"zero">>
        /\ task[t].t_s = <<"zero">>
        /\ task[t].isects = <<"empty">>

\* Number of times the results of sample k of task t were handed to the
\* accumulation stage.
TimesReported(t, k) ==
    Cardinality({j \in DOMAIN reported :
                    reported[j].task = t /\ reported[j].sample = k})

\* C9: when the loop of a task is over, the results of every sample its
\* sub-sampler handed out have been reported to the accumulation stage
\* exactly once.
C9_EachSampleReportedOnce ==
    \A t \in Tasks :
        task[t].pc = "l158" =>
            \A k \in 1 .. task[t].handed : TimesReported(t, k) = 1

\* No worker thread is inside run_task.
NoTaskRunning == \A t \in Tasks : task[t].pc \in {"unsubmitted", "queued", "done", "panicked"}

SpecularSteps ==
    stack # <<>> /\ Top.fn = "process_specular" /\ stack' # stack

\* C1: process_specular returns exactly f * Li(continuation) * |wi.n| / pdf
\* when pdf > 0, f is not black and |wi.n| # 0, and returns the zero
\* Spectrum, without continuing, as soon as one of the three fails.
C1_SpecularEstimate ==
    [][SpecularSteps =>
        LET cos == AbsDot(Top.wi, ShadingNormal)
            ok == Top.pdf > 0 /\ Top.f.c # <<0, 0>> /\ cos # 0
        IN  /\ (Top.stage = "sampled" /\ ~ok) => (stack' = Pop /\ ret' = Zero)
            /\ (Top.stage = "sampled" /\ ok) => Len(stack') = Len(stack) + 1
            /\ Top.stage = "li" =>
                  /\ ok
                  /\ stack' = Pop
                  /\ ret'.den > 0
                  /\ \A i \in 1 .. 2 :
                        ret'.c[i] * Top.pdf * ret.den
                            = Top.f.c[i] * ret.c[i] * cos * ret'.den
      ]_vars

\* process_specular has returned 3 * 2 * 2 / 2 in the second channel: the
\* estimate of an accepted sample with pdf = 2.
C1_Witness ==
    /\ stack # <<>>
    /\ Top.fn = "li"
    /\ Top.stage \in {"transmit", "sum"}
    /\ ret = Channels(0, 6)

\* C2: between two facing perfect mirrors, one evaluation of a camera ray
\* performs at most D + 1 specular continuations.
C2_ContinuationsBounded ==
    scene = "mirrors" => continuations <= max_depth + 1

\* C3: the camera ray is evaluated with depth D, every evaluation started
\* by process_specular works with a depth one less than that of the
\* evaluation that called process_specular, and process_specular is not
\* called by an evaluation with depth 0.
C3_DepthDecrements ==
    /\ stack # <<>> => stack[1].depth = max_depth
    /\ \A k \in 2 .. Len(stack) :
          /\ stack[k].fn = "li" => stack[k].depth = stack[k - 1].depth - 1
          /\ stack[k].fn = "process_specular" => stack[k - 1].depth > 0

(***************************************************************************)
(* The launch block of render (claims C11, C12, C13).                      *)
(***************************************************************************)
\* C11: render returns only after every one of the tasks it has submitted
\* has finished: when render has returned, all num_tasks closures have been
\* submitted and none of them is waiting to be run or being run.
C11_ReturnsAfterAllTasks ==
    rpc = "returned" =>
        /\ Len(closures) = num_tasks
        /\ \A t \in Tasks : Finished(t)
        /\ NoTaskRunning

\* render has returned after tasks with and without a sub-sampler have run.
C11_Witness ==
    /\ rpc = "returned"
    /\ \E t \in Tasks : rng_made[t] = 1
    /\ \E t \in Tasks : rng_made[t] = 0
    /\ \A t \in Tasks : task[t].pc = "done"

\* Number of closures render has submitted for the task index i.
ClosuresFor(i) == Cardinality({k \in DOMAIN closures : closures[k].task_idx = i})

\* render is past its calls of scope.execute.
Submitted == rpc \in {"l193", "returned"} \/ (rpc = "aborted" /\ fatal = "pool")

\* C12: render submits exactly num_tasks closures, one for each task index
\* in 0 .. num_tasks - 1 and none twice, and each of them has captured the
\* same total num_tasks; before that it has submitted none.
C12_OneClosurePerIndex ==
    /\ Submitted =>
          /\ Len(closures) = num_tasks
          /\ submitted = num_tasks
          /\ \A i \in 0 .. (num_tasks - 1) : ClosuresFor(i) = 1
          /\ \A k \in DOMAIN closures :
                /\ closures[k].task_idx \in 0 .. (num_tasks - 1)
                /\ closures[k].num_tasks = num_tasks
    /\ ~Submitted => closures = <<>> /\ submitted = 0

\* All closures are submitted and the tasks with the indices 0 and 1 are
\* running side by side.
C12_Witness ==
    /\ rpc = "l193"
    /\ Len(closures) >= 5
    /\ \E t, u \in Tasks :
          /\ TaskIdx(t) = 0 /\ task[t].pc = "l103"
          /\ TaskIdx(u) = 1 /\ task[u].pc = "l103"

\* C13: once render is past line 168 each of the two preprocess hooks has
\* been called exactly once and has returned, and no task is started
\* before that.
C13_PreprocessedOnceBeforeTasks ==
    /\ rpc # "l168" => hooks = HooksDone
    /\ (\E t \in Tasks : task[t].pc # "unsubmitted") => hooks = HooksDone

(***************************************************************************)
(* Locks, determinism and the RNG of a task (claims C14 .. C18).           *)
(***************************************************************************)
\* Task t takes the step of run_task in which renderer.li is evaluated.
EvaluatesRadiance(t) == task[t].pc = "l124" /\ task'[t] # task[t]

\* C14: a task does not hold the lock that all tasks share while it
\* evaluates radiance, so the evaluations of two tasks can overlap.
C14_RadianceEvaluatedWithoutSharedLock ==
    [][\A t \in Tasks : EvaluatesRadiance(t) => lock # t]_vars

AloneRng(idx, k) ==
    [NewRng(idx) EXCEPT !.draws =
        ((k - 1) \div MaxSampleCount) + 1
            + Cardinality({j \in 1 .. (k - 1) : RayWeight(j) > 0})]

AloneRadiance(idx, k) ==
    IF RayWeight(k) > 0
    THEN Scaled(RayWeight(k), Li(k, AloneRng(idx, k)).l)
    ELSE "zero"

\* Task t is in its sampling loop.
InLoop(t) == task[t].pc \in {"l103", "l110", "l124"}

PastLine87(t) == task[t].pc \in {"l91", "l103", "l110", "l124", "l158"}

NoSubSampler(t) == task[t].pc # "unsubmitted" /\ SubSampler(TaskIdx(t)) < 0

\* C18: a task whose get_sub_sampler yields nothing returns from its first
\* critical section: it never gets to generate a ray, evaluate radiance or
\* record a result, it does not panic, its return takes no worker thread
\* away and changes no other task, and a task that has returned takes no
\* further step.
C18_NoSubSamplerReturnsAtOnce ==
    /\ [](\A t \in Tasks :
            NoSubSampler(t) =>
                /\ task[t].pc \in {"queued", "l74", "done"}
                /\ task[t].li_calls = 0
                /\ task[t].l_s = <<>> /\ task[t].t_s = <<>> /\ task[t].isects = <<>>
                /\ rng_made[t] = 0)
    /\ [][\A t \in Tasks :
            /\ (NoSubSampler(t) /\ task[t].pc = "l74" /\ task'[t] # task[t]) =>
                  /\ task'[t].pc = "done"
                  /\ lock' = Free
                  /\ alive' = alive /\ fatal' = fatal /\ invalid' = invalid
                  /\ reported' = reported
                  /\ \A u \in Tasks \ {t} : task'[u] = task[u]
            /\ task[t].pc = "done" => task'[t] = task[t]
         ]_vars

\* A task without sub-sampler has returned while a task with one is in its
\* sampling loop, and all worker threads are alive.
C18_Witness ==
    \E t, u \in Tasks :
        /\ NoSubSampler(t) /\ task[t].pc = "done"
        /\ InLoop(u) /\ Len(task[u].l_s) > 0
        /\ alive = num_cpus

(***************************************************************************)
(* The continuation ray (claim C19) and the result buffers (claim C20).    *)
(***************************************************************************)
\* process_specular accepts its sample and starts the recursive evaluation.
StartsContinuation ==
    /\ SpecularSteps
    /\ Top.stage = "sampled"
    /\ Len(stack') = Len(stack) + 1

\* C19: the ray of the recursive evaluation that process_specular starts
\* begins at the hit point and has the direction wi; it is not the ray
\* process_specular was called with.
C19_ContinuationRayFromHitPoint ==
    [][StartsContinuation =>
          LET rd == stack'[Len(stack')].ray
          IN  /\ rd.o = Top.p
              /\ rd.d = Top.wi
              /\ rd # Top.ray
      ]_vars

\* C20: the result buffers of a task never hold more than the results of one
\* batch: their lengths never exceed the sampler's maximum sample count, and
\* at the end of a batch they hold exactly the results of that batch.
C20_BuffersHoldOneBatch ==
    \A t \in Tasks :
        /\ Len(task[t].l_s) <= MaxSampleCount
        /\ Len(task[t].t_s) <= MaxSampleCount
        /\ Len(task[t].isects) <= MaxSampleCount
        /\ (task[t].pc = "l103" /\ task[t].handed > 0) =>
              Len(task[t].l_s) = Len(task[t].samples)

C27_MasksAndOutgoingDirection ==
    \A i \in 2 .. Len(stack) :
        stack[i].fn = "process_specular" =>
            LET frame == stack[i]
                caller == stack[i - 1]
            IN  /\ caller.fn = "li"
                /\ caller.stage \in {"transmit", "sum"}
                /\ caller.stage = "transmit" =>
                       frame.mask = {"BSDF_REFLECTION", "BSDF_SPECULAR"}
                /\ caller.stage = "sum" =>
                       frame.mask = {"BSDF_TRANSMISSION", "BSDF_SPECULAR"}
                /\ frame.ray = caller.ray
                /\ frame.depth = caller.depth
                /\ frame.p = caller.p
                /\ frame.stage \in {"sampled", "li"} =>
                       frame.wo = <<-frame.ray.d[1], -frame.ray.d[2], -frame.ray.d[3]>>

\* C27 witness: a call of process_specular made by specular_transmit has
\* sampled the BSDF, after the call made by specular_reflect has returned.
C27_Witness ==
    /\ Len(stack) = 2
    /\ stack[1].stage = "sum"
    /\ stack[2].fn = "process_specular"
    /\ stack[2].stage = "sampled"
    /\ stack[2].wo = <<0, 0, 1>>

(***************************************************************************)
(* Radiance evaluations started by process_specular (claim C28).           *)
(***************************************************************************)
\* The call of process_specular on top of the stack has its sample and is
\* about to test it (line 31).
TestsSample == stack # <<>> /\ Top.fn = "process_specular" /\ Top.stage = "sampled"

\* C28: a call of process_specular that rejects its sample (pdf <= 0, black
\* f or zero cosine) returns without invoking the radiance evaluation of the
\* renderer; a call that accepts its sample invokes it exactly once: the
\* test of the sample starts one evaluation, and no other step of the call
\* starts one.
C28_EvaluatesOnlyAcceptedSamples ==
    [][/\ (TestsSample /\ (Top.pdf <= 0 \/ (Top.f.c[1] = 0 /\ Top.f.c[2] = 0) \/ Top.win = 0)) =>
              /\ continuations' = continuations
              /\ stack' = SubSeq(stack, 1, Len(stack) - 1)
       /\ (TestsSample /\ Top.pdf > 0 /\ (Top.f.c[1] # 0 \/ Top.f.c[2] # 0) /\ Top.win # 0) =>
              /\ continuations' = continuations + 1
              /\ Len(stack') = Len(stack) + 1
              /\ stack'[Len(stack)].stage = "li"
              /\ stack'[Len(stack')].fn = "li"
       /\ (stack # <<>> /\ Top.fn = "process_specular" /\ Top.stage \in {"sample", "li"}) =>
              /\ continuations' = continuations
              /\ Len(stack') <= Len(stack)
              /\ (Top.stage = "li" => stack' = SubSeq(stack, 1, Len(stack) - 1))]_vars

\* C28 witness: one call of process_specular has rejected its sample and has
\* returned the zero Spectrum, and another has accepted its sample and is
\* waiting for the one evaluation it has started.
C28_Witness ==
    /\ Len(stack) = 3
    /\ stack[1].stage = "sum"
    /\ stack[2].fn = "process_specular"
    /\ stack[2].stage = "li"
    /\ continuations = 1

(***************************************************************************)
(* The result vectors of a task (claim C29).                               *)
(***************************************************************************)
\* Task t finishes sample i of its batch with this step: the sample is not
\* traced (lines 145-150), or its radiance has been evaluated and is valid
\* (lines 131-144).
FinishesSample(t) ==
    /\ task[t].pc \in {"l110", "l124"}
    /\ task'[t].pc \in {"l110", "l103"}
    /\ task'[t] # task[t]

Last(s) == s[Len(s)]

\* C29: the step that finishes a sample adds one entry to each of l_s, t_s
\* and isects, so that the three vectors have the same length after every
\* sample, on each path: a traced sample records what the evaluation has
\* returned, with a zero spectrum for a missing transmittance and an empty
\* intersection for a missing intersection; a sample of weight 0 or of
\* negative weight records zero, zero and the empty intersection and is not
\* evaluated.
C29_ResultVectorsAligned ==
    [][\A t \in Tasks :
          /\ FinishesSample(t) =>
                LET r == task[t]
                    n == task'[t]
                    sample == r.samples[r.i + 1]
                IN  /\ Len(n.l_s) = Len(r.l_s) + 1
                    /\ Len(n.t_s) = Len(r.t_s) + 1
                    /\ Len(n.isects) = Len(r.isects) + 1
                    /\ r.pc = "l110" =>
                          /\ world.camera[(sample % 2) + 1] <= 0
                          /\ Last(n.l_s) = "zero"
                          /\ Last(n.t_s) = "zero"
                          /\ Last(n.isects) = "empty"
                          /\ n.li_calls = r.li_calls
                    /\ r.pc = "l124" =>
                          LET out == world.evaluator[((sample + r.rng.seed + r.rng.draws) % 2) + 1]
                          IN  /\ r.ray_weight > 0
                              /\ Last(n.l_s) = out.l
                              /\ Last(n.t_s) = (IF out.ts = "some" THEN "ts" ELSE "zero")
                              /\ Last(n.isects) = (IF out.isect = "some" THEN "hit" ELSE "empty")
                              /\ n.li_calls = r.li_calls + 1
          /\ (task[t].pc # "unsubmitted" /\ task'[t].pc # "unsubmitted") =>
                /\ Len(task'[t].l_s) = Len(task'[t].t_s)
                /\ Len(task'[t].t_s) = Len(task'[t].isects)]_vars

\* C29 witness: a task has recorded a sample of negative weight and a traced
\* sample for which the evaluation has returned neither a transmittance nor
\* an intersection.
C29_Witness ==
    \E t \in Tasks :
        /\ world.camera[1] = -1
        /\ Len(task[t].l_s) = 2
        /\ task[t].l_s = <<"valid", "zero">>
        /\ task[t].t_s = <<"zero", "zero">>
        /\ task[t].isects = <<"empty", "empty">>
        /\ task[t].li_calls = 1

(***************************************************************************)
(* Primitive::intersect (claim C22).                                       *)
(***************************************************************************)
\* C22: Primitive::intersect returns a hit exactly when the intersect of
\* the wrapped geometric primitive returns one; the hit is the one the
\* geometric primitive has found, with its back-reference set to the
\* Primitive on which intersect was called; a miss stays a miss.
C22_HitCarriesItsPrimitive ==
    intersection.pc = "returned" =>
        LET geometric == intersection.geometry[intersection.ray]
            isect == intersection.isect
        IN  /\ isect.some = geometric.some
            /\ isect.some =>
                  /\ isect.primitive = intersection.self
                  /\ isect.t = geometric.t
            /\ ~isect.some => isect = geometric

\* C22 witness: the geometric primitive has found a hit whose back-reference
\* does not name the Primitive that was asked, and the call has returned.
C22_Witness ==
    /\ intersection.pc = "returned"
    /\ intersection.isect.some
    /\ intersection.geometry[intersection.ray].primitive # intersection.self

(***************************************************************************)
(* Shape ids (claim C23).                                                  *)
(***************************************************************************)
\* The Shapes of every thread: the pairs of a thread and a position in the
\* list of what it has created.
Created == {<<th, k>> \in Threads \X (1 .. MaxShapes) : k <= Len(shapes.created[th])}

ShapeId(c) == shapes.created[c[1]][c[2]].shape_id

\* C23 as stated: of two Shapes created back to back by one thread, the
\* second has the id of the first plus one, and no id is negative.
C23_ConsecutiveIdsPerThread ==
    shapes.pc = "running" =>
        \A c \in Created :
            /\ ShapeId(c) >= 0
            /\ <<c[1], c[2] + 1>> \in Created =>
                  ShapeId(<<c[1], c[2] + 1>>) = ShapeId(c) + 1

\* C23 amended: the ids come from one counter that all threads share, so no
\* two Shapes have the same id, no id is negative, and of two Shapes created
\* back to back by one thread the second has the id of the first plus one
\* plus the number of Shapes that other threads have created in between.
C23_IdsFromOneSharedCounter ==
    shapes.pc = "running" =>
        /\ \A c \in Created : ShapeId(c) >= 0
        /\ \A c, d \in Created : c # d => ShapeId(c) # ShapeId(d)
        /\ \A c \in Created :
              <<c[1], c[2] + 1>> \in Created =>
                  LET next == <<c[1], c[2] + 1>>
                      between == {d \in Created : /\ d[1] # c[1]
                                                  /\ ShapeId(c) < ShapeId(d)
                                                  /\ ShapeId(d) < ShapeId(next)}
                  IN  ShapeId(next) = ShapeId(c) + 1 + Cardinality(between)

\* C23 witness: a thread has created two Shapes back to back while another
\* thread has created one in between.
C23_Witness ==
    /\ shapes.pc = "running"
    /\ Len(shapes.created[1]) = 2
    /\ shapes.created[1][1].shape_id = 0
    /\ shapes.created[1][2].shape_id = 2
    /\ Len(shapes.created[2]) = 1

(***************************************************************************)
(* AnimatedTransform::interpolate (claim C24).                             *)
(***************************************************************************)
\* C24: interpolate(time) returns the start transform whenever the
\* transform is not actually animated or time <= start_time, and the end
\* transform whenever it is animated and start_time < time and
\* time >= end_time; it interpolates only for start_time < time < end_time,
\* so that it never divides by zero, also when start_time = end_time.
C24_InterpolateBoundaries ==
    interpolation.pc = "returned" =>
        LET self == interpolation.self
            time == interpolation.time
            result == interpolation.result
            animated == self.start_transform # self.end_transform
            start == self.start_transform
            end == self.end_transform
        IN  /\ (~animated \/ time <= self.start_time) =>
                  /\ result.branch = "start"
                  /\ result.t = <<start.t, 1>> /\ result.s = <<start.s, 1>>
            /\ (animated /\ self.start_time < time /\ time >= self.end_time) =>
                  /\ result.branch = "end"
                  /\ result.t = <<end.t, 1>> /\ result.s = <<end.s, 1>>
            /\ result.branch = "interpolated" =>
                  /\ animated
                  /\ self.start_time < time /\ time < self.end_time
            /\ 0 \notin result.divisors
            /\ (result.branch # "interpolated") => result.divisors = {}

\* C24 witness: an animated transform whose start and end times are equal
\* has been asked for a time after them, and has returned.
C24_Witness ==
    /\ interpolation.pc = "returned"
    /\ interpolation.self.actually_animated
    /\ interpolation.self.start_time = interpolation.self.end_time
    /\ interpolation.time > interpolation.self.start_time
    /\ interpolation.result.branch = "end"

(***************************************************************************)
(* fully_refine (claim C30).                                               *)
(***************************************************************************)
Range(s) == {s[k] : k \in 1 .. Len(s)}

\* The refined leaves reached from node x of the tree of call r: x itself
\* when it is refined, otherwise those reached from what x refines into.
RECURSIVE RefinedLeaves(_, _)
RefinedLeaves(r, x) ==
    IF r.refined[x] THEN {x}
    ELSE UNION {RefinedLeaves(r, c) : c \in Range(r.children[x])}

\* C30: for a finite refinement tree, fully_refine returns the refined
\* leaves reached from refine(self), each exactly once and nothing else:
\* refine is called on the root without testing whether the root is refined
\* already, a popped element that is refined goes to the result, and a
\* popped element that is not refined is replaced in the work list by what
\* it refines into.
C30_FullyRefineReturnsRefinedLeaves ==
    [][LET r == refinement
           n == refinement'
       IN  /\ r.pc = "l43" =>
                 /\ n.todo = r.children[r.self]
                 /\ n.done = <<>>
           /\ (r.pc = "l46" /\ r.todo # <<>>) =>
                 LET x == r.todo[Len(r.todo)]
                     popped == SubSeq(r.todo, 1, Len(r.todo) - 1)
                 IN  IF r.refined[x]
                     THEN n.todo = popped /\ n.done = Append(r.done, x)
                     ELSE n.todo = popped \o r.children[x] /\ n.done = r.done
           /\ n.pc = "returned" =>
                 /\ \A k \in 1 .. Len(n.done) : n.refined[n.done[k]]
                 /\ \A j, k \in 1 .. Len(n.done) : j # k => n.done[j] # n.done[k]
                 /\ Range(n.done) =
                       UNION {RefinedLeaves(n, c) : c \in Range(n.children[n.self])}]_vars

\* C30 witness: fully_refine has returned two refined leaves for a root that
\* is refined itself, after refining a child of the root that was not.
C30_Witness ==
    /\ refinement.pc = "returned"
    /\ refinement.refined[refinement.self]
    /\ Len(refinement.done) = 2
    /\ \E x \in Range(refinement.children[refinement.self]) :
          /\ ~refinement.refined[x]
          /\ refinement.children[x] # <<>>

(***************************************************************************)
(* LoopSubdiv::new (claim C26).                                            *)
(***************************************************************************)
\* C26: LoopSubdiv::new called with n points and 3*m vertex indices that
\* reference them does not panic, and the mesh it returns has n vertices, m
\* faces and the requested number of levels, also when a vertex is used by
\* more than one face.
C26_NewBuildsControlMesh ==
    /\ subdiv.pc # "panicked"
    /\ subdiv.pc = "returned" =>
          /\ subdiv.result.vertices = subdiv.points
          /\ 3 * subdiv.result.faces = Len(subdiv.vertex_indices)
          /\ subdiv.result.n_levels = subdiv.nl

(***************************************************************************)
(* Matrix4x4::invert (claim C25).                                          *)
(***************************************************************************)
\* C25: inverting a singular matrix with invert or inverse panics with
\* 'Singular matrix!' and returns no matrix; invert panics exactly when
\* lu_decompose has reported singularity.
C25_SingularMatrixPanics ==
    /\ (inversion.pc \in {"panicked", "returned"} /\ inversion.singular) =>
          inversion.pc = "panicked" /\ inversion.message = "Singular matrix!"
    /\ inversion.pc = "panicked" => inversion.lu = "None"
    /\ inversion.pc = "returned" => inversion.lu = "Some"

====
